---------------------------- MODULE Spec2Model ----------------------------
(***************************************************************************)
(* Homotopy maps of the `construct` library (src/src/lib.rs).              *)
(*                                                                         *)
(* A map Fn1/Fn2/Fn3 is an Arc'ed closure.  A closure is modelled by its   *)
(* captured environment, a record with an `op` field; each combinator has  *)
(* a constructor (the function of lib.rs, same name) and a body operator   *)
(* (the `move |t| ...` closure it returns).  Calling a map is `Call`.      *)
(*                                                                         *)
(* The scalar type T: Float is modelled as IEEE arithmetic of unbounded    *)
(* precision and range: the rationals, computed exactly, with NaN and the  *)
(* two infinities as the results of divisions by zero.  Rounding, overflow *)
(* and underflow of a concrete T (f32, f64) are not modelled.              *)
(***************************************************************************)
EXTENDS Integers, Sequences, FiniteSets, TLC

VARIABLES
    fn,      \* the map under construction, then the map being sampled
    t,       \* the parameter the caller samples fn at
    cur,     \* the closure being called right now
    arg,     \* the argument cur is called with
    caller,  \* the closure whose body made this call (None: the sampler)
    out,     \* the point returned to the sampler
    pc       \* "new", "build", "call", "done"

vars == <<fn, t, cur, arg, caller, out, pc>>

(***************************************************************************)
(* Bounds of the model.                                                    *)
(***************************************************************************)
\* Sampled parameters are the multiples of 1 / 2^GridBits in [0,1].
GridBits == 3
\* Deepest nesting of domain-remap combinators built around a leaf curve.
MaxDepth == 2

(***************************************************************************)
(* The scalar type T: Float.  A finite value is the rational n/d in lowest *)
(* terms, d > 0; k tells finite, infinite (n the sign) and NaN apart.      *)
(* Every zero the modelled code divides by is a +0 (a difference x - x, a  *)
(* sum of squares), so one zero suffices.                                  *)
(***************************************************************************)
RECURSIVE Pow2(_)
Pow2(e) == IF e = 0 THEN 1 ELSE 2 * Pow2(e - 1)

RECURSIVE GCD(_, _)
GCD(a, b) == IF b = 0 THEN a ELSE GCD(b, a % b)

Sgn(n) == IF n > 0 THEN 1 ELSE IF n < 0 THEN -1 ELSE 0
Abs(n) == IF n < 0 THEN -n ELSE n

Fin(n, d) == [k |-> "fin", n |-> n, d |-> d]
NaN == [k |-> "nan", n |-> 0, d |-> 1]
Inf(s) == [k |-> "inf", n |-> s, d |-> 1]

IsFin(x) == x.k = "fin"
IsNaN(x) == x.k = "nan"

\* The finite scalar num/den (den # 0), in lowest terms.
Rat(num, den) ==
    LET g == GCD(Abs(num), Abs(den))
    IN  Fin((Sgn(den) * num) \div g, Abs(den) \div g)

fneg(x) == IF IsNaN(x) THEN NaN ELSE [x EXCEPT !.n = -x.n]

\* T's `+`.
fadd(x, y) ==
    IF IsNaN(x) \/ IsNaN(y) THEN NaN
    ELSE IF ~IsFin(x) /\ ~IsFin(y) THEN (IF x.n = y.n THEN x ELSE NaN)
    ELSE IF ~IsFin(x) THEN x
    ELSE IF ~IsFin(y) THEN y
    ELSE Rat(x.n * y.d + y.n * x.d, x.d * y.d)

\* T's `-`.
fsub(x, y) == fadd(x, fneg(y))

\* T's `*`.
fmul(x, y) ==
    IF IsNaN(x) \/ IsNaN(y) THEN NaN
    ELSE IF ~IsFin(x) \/ ~IsFin(y)
         THEN (IF x.n = 0 \/ y.n = 0 THEN NaN ELSE Inf(Sgn(x.n) * Sgn(y.n)))
    ELSE Rat(x.n * y.n, x.d * y.d)

\* T's `/`: x/0 is an infinity, 0/0 and inf/inf are NaN.
fdiv(x, y) ==
    IF IsNaN(x) \/ IsNaN(y) THEN NaN
    ELSE IF ~IsFin(x) THEN (IF ~IsFin(y) THEN NaN
                            ELSE Inf(x.n * (IF y.n < 0 THEN -1 ELSE 1)))
    ELSE IF ~IsFin(y) THEN Fin(0, 1)
    ELSE IF y.n = 0 THEN (IF x.n = 0 THEN NaN ELSE Inf(Sgn(x.n)))
    ELSE Rat(x.n * y.d, x.d * y.n)

\* T's `<` (false when either side is NaN).
flt(x, y) ==
    /\ ~IsNaN(x)
    /\ ~IsNaN(y)
    /\ IF IsFin(x) /\ IsFin(y) THEN x.n * y.d < y.n * x.d
       ELSE IF IsFin(x) THEN y.n > 0
       ELSE IF IsFin(y) THEN x.n < 0
       ELSE x.n < y.n

\* T's `==` (false when either side is NaN).
feq(x, y) == ~IsNaN(x) /\ ~IsNaN(y) /\ x = y

\* T's `<=`, and membership of the normalized domain [0,1].
fle(x, y) == flt(x, y) \/ feq(x, y)
InUnit(x) == IsFin(x) /\ fle(Fin(0, 1), x) /\ fle(x, Fin(1, 1))

\* The literals of lib.rs: Zero::zero(), One::one(), 0.5.cast(), ...
Zero == Fin(0, 1)
One == Fin(1, 1)
Two == Fin(2, 1)
Four == Fin(4, 1)
F05 == Fin(1, 2)
F025 == Fin(1, 4)
F075 == Fin(3, 4)

(***************************************************************************)
(* vecmath's re-exported vector arithmetic on [T; 3].                      *)
(***************************************************************************)
add3(a, b) == <<fadd(a[1], b[1]), fadd(a[2], b[2]), fadd(a[3], b[3])>>
sub3(a, b) == <<fsub(a[1], b[1]), fsub(a[2], b[2]), fsub(a[3], b[3])>>
scale3(a, s) == <<fmul(a[1], s), fmul(a[2], s), fmul(a[3], s)>>

(***************************************************************************)
(* Closures.  A closure is [op, par, sub]: the combinator that built it,   *)
(* the scalars and vectors it captured, and the maps it captured.  None is *)
(* "no closure / no value"; Pend(g, x) is the call g(x) a closure body     *)
(* ends with (a tail call: the callee's point is returned unchanged).      *)
(***************************************************************************)
Closure(op, par, sub) == [op |-> op, par |-> par, sub |-> sub]
None == Closure("none", <<>>, <<>>)
Pend(g, x) == [fn |-> g, arg |-> x]

RECURSIVE Call(_, _)

(***************************************************************************)
(* Curves: lin, lin2, cbez.                                                *)
(***************************************************************************)
lin(a, b) == Closure("lin", <<a, b>>, <<>>)
lin_fn(f, x) ==
    LET a == f.par[1]
        b == f.par[2]
    IN  add3(a, scale3(sub3(b, a), x))

lin2(a, b) == Closure("lin2", <<>>, <<a, b>>)
lin2_fn(f, x) ==
    LET a == f.sub[1]
        b == f.sub[2]
    IN  add3(scale3(Call(a, x), fsub(One, x)), scale3(Call(b, x), x))

\* Faulty variant: the four-point cubic Bezier, by de Casteljau.
cbez_std(a, b, c, d) == lin2(lin2(lin(a, b), lin(b, c)), lin2(lin(b, c), lin(c, d)))

cbez(a, b, c, d) == lin2(lin(a, b), lin(c, d))

(***************************************************************************)
(* cquad: a curved quad smoothed between four boundary curves.             *)
(***************************************************************************)
cquad(smooth, ab, cd, ac, bd) == Closure("cquad", <<smooth>>, <<ab, cd, ac, bd>>)

\* Faulty variant: not squared.
cquad_raw_linear(smooth, x) == fadd(fmul(Four, fsub(x, F05)), smooth)

\* The raw weight of one axis (lines 132, 133).
cquad_raw(smooth, x) == fadd(fmul(fmul(Four, fsub(x, F05)), fsub(x, F05)), smooth)

\* Faulty variant: w1 is divided by the sum of the already normalized w0 and w1.
cquad_norm_seq(w0, w1) == <<fdiv(w0, fadd(w0, w1)), fdiv(w1, fadd(fdiv(w0, fadd(w0, w1)), w1))>>

\* "Normalize weights": both quotients use the raw w0 + w1 (line 135).
cquad_norm(w0, w1) == <<fdiv(w0, fadd(w0, w1)), fdiv(w1, fadd(w0, w1))>>

\* The raw interpolant a between ab and cd (lines 127, 128, 137).
cquad_a(f, x) ==
    LET abx == Call(f.sub[1], x[2])
        cdx == Call(f.sub[2], x[2])
    IN  add3(abx, scale3(sub3(cdx, abx), x[1]))

\* The raw interpolant b between ac and bd (lines 129, 130, 138).
cquad_b(f, x) ==
    LET acx == Call(f.sub[3], x[1])
        bdx == Call(f.sub[4], x[1])
    IN  add3(acx, scale3(sub3(bdx, acx), x[2]))

\* Which arm of the if/else chain of lines 139-146 runs.
cquad_branch(w) ==
    IF feq(w[1], One) THEN "a"
    ELSE IF feq(w[2], One) THEN "b"
    ELSE IF feq(fadd(w[1], w[2]), Zero) THEN "mid"
    ELSE "sum"

cquad_fn(f, x) ==
    LET smooth == f.par[1]
        w == cquad_norm(cquad_raw(smooth, x[1]), cquad_raw(smooth, x[2]))
        a == cquad_a(f, x)
        b == cquad_b(f, x)
        br == cquad_branch(w)
    IN  IF br = "a" THEN a
        ELSE IF br = "b" THEN b
        ELSE IF br = "mid" THEN scale3(add3(a, b), F05)
        ELSE add3(scale3(a, w[1]), scale3(b, w[2]))

(***************************************************************************)
(* Concatenation.                                                          *)
(***************************************************************************)
con(w, a, b) == Closure("con", <<w>>, <<a, b>>)

\* Faulty variant: the seam t = w is given to a.
con_fn_le(f, x) ==
    LET w == f.par[1]
        a == f.sub[1]
        b == f.sub[2]
    IN  IF flt(x, w) \/ feq(x, w) THEN Pend(a, fdiv(x, w))
        ELSE Pend(b, fdiv(fsub(x, w), fsub(One, w)))

\* Faulty variant: the two divisors are swapped.
con_fn_swapdiv(f, x) ==
    LET w == f.par[1]
        a == f.sub[1]
        b == f.sub[2]
    IN  IF flt(x, w) THEN Pend(a, fdiv(x, fsub(One, w)))
        ELSE Pend(b, fdiv(fsub(x, w), w))

con_fn(f, x) ==
    LET w == f.par[1]
        a == f.sub[1]
        b == f.sub[2]
    IN  IF flt(x, w) THEN Pend(a, fdiv(x, w))
        ELSE Pend(b, fdiv(fsub(x, w), fsub(One, w)))

conx3(wx, a, b) == Closure("conx3", <<wx>>, <<a, b>>)
conx3_fn(f, x) ==
    LET wx == f.par[1]
        a == f.sub[1]
        b == f.sub[2]
    IN  IF flt(x[1], wx) THEN Pend(a, <<fdiv(x[1], wx), x[2], x[3]>>)
        ELSE Pend(b, <<fdiv(fsub(x[1], wx), fsub(One, wx)), x[2], x[3]>>)

(***************************************************************************)
(* Mirrors.                                                                *)
(***************************************************************************)
mx(x, a) == Closure("mx", <<x>>, <<a>>)

\* Faulty variant: the plane coordinate is not doubled.
mx_fn_single(f, x) ==
    LET pos == Call(f.sub[1], x)
    IN  <<fsub(f.par[1], pos[1]), pos[2], pos[3]>>

mx_fn(f, x) ==
    LET pos == Call(f.sub[1], x)
    IN  <<fsub(fmul(Two, f.par[1]), pos[1]), pos[2], pos[3]>>

mirx3(x, a) == conx3(F05, a, mx(x, a))

(***************************************************************************)
(* Segments, reversal, contour, margin, extension.                         *)
(***************************************************************************)
seg1(range, a) == Closure("seg1", <<range>>, <<a>>)

\* Faulty variant: the span is taken to be range[1], not range[1] - range[0].
seg1_fn_span(f, x) ==
    LET range == f.par[1]
        a == f.sub[1]
    IN  Pend(a, fadd(range[1], fmul(range[2], x)))

seg1_fn(f, x) ==
    LET range == f.par[1]
        a == f.sub[1]
    IN  Pend(a, fadd(range[1], fmul(fsub(range[2], range[1]), x)))

rev(a) == seg1(<<One, Zero>>, a)

contour(a) == Closure("contour", <<>>, <<a>>)

\* Faulty variant: the third edge is measured from 0.25, not from 0.5.
contour_fn_offset(f, x) ==
    LET a == f.sub[1]
    IN  IF flt(x, F025) THEN Pend(a, <<fmul(Four, x), Zero>>)
        ELSE IF flt(x, F05) THEN Pend(a, <<One, fmul(Four, fsub(x, F025))>>)
        ELSE IF flt(x, F075) THEN Pend(a, <<fsub(One, fmul(Four, fsub(x, F025))), One>>)
        ELSE Pend(a, <<Zero, fsub(One, fmul(Four, fsub(x, F075)))>>)

contour_fn(f, x) ==
    LET a == f.sub[1]
    IN  IF flt(x, F025) THEN Pend(a, <<fmul(Four, x), Zero>>)
        ELSE IF flt(x, F05) THEN Pend(a, <<One, fmul(Four, fsub(x, F025))>>)
        ELSE IF flt(x, F075) THEN Pend(a, <<fsub(One, fmul(Four, fsub(x, F05))), One>>)
        ELSE Pend(a, <<Zero, fsub(One, fmul(Four, fsub(x, F075)))>>)

\* Faulty variant: the margin is counted once in the scale, not on both sides.
margin1_once(m, a) == Closure("margin1", <<m, fdiv(One, fadd(One, m))>>, <<a>>)

\* s is computed once, when the closure is built (line 318).
margin1(m, a) == Closure("margin1", <<m, fdiv(One, fadd(One, fmul(Two, m)))>>, <<a>>)
margin1_fn(f, x) ==
    LET m == f.par[1]
        s == f.par[2]
        a == f.sub[1]
    IN  Pend(a, fmul(fadd(x, m), s))

ext1(a, b) == Closure("ext1", <<>>, <<a, b>>)
ext1_fn(f, x) == add3(Call(f.sub[1], x[1]), Call(f.sub[2], x[2]))

ext2(a, b) == Closure("ext2", <<>>, <<a, b>>)
ext2_fn(f, x) == add3(Call(f.sub[1], x[1]), Call(f.sub[2], <<x[2], x[3]>>))

(***************************************************************************)
(* Calling a closure.  A body that ends in a call of a captured map with   *)
(* a remapped argument is a tail call; the others combine the points their *)
(* captured maps return.                                                   *)
(***************************************************************************)
IsTail(f) == f.op \in {"con", "conx3", "seg1", "contour", "margin1"}

TailCall(f, x) ==
    CASE f.op = "con" -> con_fn(f, x)
      [] f.op = "conx3" -> conx3_fn(f, x)
      [] f.op = "seg1" -> seg1_fn(f, x)
      [] f.op = "contour" -> contour_fn(f, x)
      [] f.op = "margin1" -> margin1_fn(f, x)

Call(f, x) ==
    IF IsTail(f) THEN Call(TailCall(f, x).fn, TailCall(f, x).arg)
    ELSE CASE f.op = "lin" -> lin_fn(f, x)
           [] f.op = "lin2" -> lin2_fn(f, x)
           [] f.op = "cquad" -> cquad_fn(f, x)
           [] f.op = "mx" -> mx_fn(f, x)
           [] f.op = "ext1" -> ext1_fn(f, x)
           [] f.op = "ext2" -> ext2_fn(f, x)

\* How many remap combinators are nested around the deepest leaf of f.
RECURSIVE Depth(_)
Depth(f) ==
    IF f.op = "con"
    THEN 1 + (IF Depth(f.sub[1]) > Depth(f.sub[2]) THEN Depth(f.sub[1]) ELSE Depth(f.sub[2]))
    ELSE IF f.op \in {"seg1", "margin1"} THEN 1 + Depth(f.sub[1])
    ELSE 0

(***************************************************************************)
(* Inputs: the sampled parameters and the maps the callers build.          *)
(***************************************************************************)
\* The normalized domain [0,1], sampled on a grid.
Grid == {Rat(k, Pow2(GridBits)) : k \in 0..Pow2(GridBits)}

V(x, y, z) == <<Fin(x, 1), Fin(y, 1), Fin(z, 1)>>

\* Leaf curves with pairwise disjoint, injective images: a returned point
\* tells which leaf was called and with which argument.
CurveA == lin(V(0, 0, 0), V(4, 0, 2))
CurveB == lin(V(1, 4, 0), V(3, 0, 4))
CurveC == lin(V(0, 1, 1), V(0, 3, 5))

\* Concatenation weights, the degenerate 0 and 1 included.
Weights == {Zero, F025, Fin(1, 3), F05, F075, One}
\* Segment end points.
RangeVals == {Zero, F05, One}
\* Margins, a negative one included.
Margins == {Fin(-1, 4), Zero, F05, One}

(***************************************************************************)
(* The caller's side: build a map, then sample it once.  Sampling is one   *)
(* step per closure call: Invoke runs a body that ends in a tail call,     *)
(* Return runs the body of the closure that computes the point.            *)
(***************************************************************************)
Init ==
    /\ fn = None
    /\ t = None
    /\ cur = None
    /\ arg = None
    /\ caller = None
    /\ out = None
    /\ pc = "new"

Built(f) ==
    /\ fn' = f
    /\ pc' = "build"
    /\ UNCHANGED <<t, cur, arg, caller, out>>

NewLin ==
    /\ pc = "new"
    /\ \E c \in {CurveA, CurveB} : Built(c)

CanWrap == pc = "build" /\ Depth(fn) < MaxDepth

WrapCon ==
    /\ CanWrap
    /\ \E w \in Weights : Built(con(w, fn, CurveC)) \/ Built(con(w, CurveC, fn))

WrapSeg1 ==
    /\ CanWrap
    /\ \E r0 \in RangeVals, r1 \in RangeVals : Built(seg1(<<r0, r1>>, fn))

WrapRev ==
    /\ CanWrap
    /\ Built(rev(fn))

WrapMargin1 ==
    /\ CanWrap
    /\ \E m \in Margins : Built(margin1(m, fn))

\* The rank of a map: Fn1, Fn2 or Fn3 (mx is generic in its input type).
RECURSIVE Rank(_)
Rank(f) ==
    CASE f.op \in {"lin", "lin2", "con", "seg1", "margin1", "contour"} -> 1
      [] f.op \in {"cquad", "ext1"} -> 2
      [] f.op \in {"ext2", "conx3"} -> 3
      [] f.op = "mx" -> Rank(f.sub[1])
      [] OTHER -> 0

SampleAt(x) ==
    /\ pc = "build"
    /\ t' = x
    /\ cur' = fn
    /\ arg' = x
    /\ caller' = None
    /\ pc' = "call"
    /\ UNCHANGED <<fn, out>>

Sample1 ==
    /\ Rank(fn) = 1
    /\ \E x \in Grid : SampleAt(x)

Sample2 ==
    /\ Rank(fn) = 2
    /\ \E x \in Grid \X Grid : SampleAt(x)

Sample3 ==
    /\ Rank(fn) = 3
    /\ \E x \in Grid \X Grid \X Grid : SampleAt(x)

Invoke ==
    /\ pc = "call"
    /\ IsTail(cur)
    /\ cur' = TailCall(cur, arg).fn
    /\ arg' = TailCall(cur, arg).arg
    /\ caller' = cur
    /\ UNCHANGED <<fn, t, out, pc>>

Return ==
    /\ pc = "call"
    /\ ~IsTail(cur)
    /\ out' = Call(cur, arg)
    /\ pc' = "done"
    /\ UNCHANGED <<fn, t, cur, arg, caller>>

Next ==
    \/ NewLin
    \/ WrapCon
    \/ WrapSeg1
    \/ WrapRev
    \/ WrapMargin1
    \/ Sample1
    \/ Invoke
    \/ Return

Spec == Init /\ [][Next]_vars
(***************************************************************************)
(* Curved quads (specification SpecCquad): a caller builds one cquad from  *)
(* four boundary curves and samples it at a point of the unit square.      *)
(***************************************************************************)
Smooths == {Fin(-1, 1), Fin(-1, 2), Zero, F05, One}

\* Quad1: the edge ab bulges out of the plane of the other three edges.
\* Quad2: the edge ab is lifted off the corners, and bd bulges.
CornerA == V(0, 0, 0)
CornerB == V(4, 0, 0)
CornerC == V(0, 4, 0)
CornerD == V(4, 4, 0)
Quad1 == <<cbez(CornerA, V(0, 0, 4), V(4, 0, 4), CornerB), lin(CornerC, CornerD), lin(CornerA, CornerC), lin(CornerB, CornerD)>>
Quad2 == <<lin(V(0, 0, 2), V(4, 0, 2)), lin(CornerC, CornerD), lin(CornerA, CornerC), cbez(CornerB, V(4, 0, 4), V(4, 4, 4), CornerD)>>

NewCquad ==
    /\ pc = "new"
    /\ \E smooth \in Smooths, q \in {Quad1, Quad2} : Built(cquad(smooth, q[1], q[2], q[3], q[4]))

NextCquad ==
    \/ NewCquad
    \/ Sample2
    \/ Return

SpecCquad == Init /\ [][NextCquad]_vars

\* The locals of the cquad closure body at the sampled point.
RawW0 == cquad_raw(fn.par[1], t[1])
RawW1 == cquad_raw(fn.par[1], t[2])
NormW == cquad_norm(RawW0, RawW1)
RawA == cquad_a(fn, t)
RawB == cquad_b(fn, t)
Midpoint == scale3(add3(RawA, RawB), F05)
Sampled == pc = "done" /\ fn.op = "cquad"

\* C2: with smooth = 0 at t = [0.5, 0.5] (both raw weights 0) the explicit
\* midpoint fallback returns (a + b)/2, and no 0/0 reaches the result.
C2_MidpointFallback ==
    (Sampled /\ fn.par[1] = Zero /\ t = <<F05, F05>>) =>
        /\ RawW0 = Zero
        /\ RawW1 = Zero
        /\ cquad_branch(NormW) = "mid"
        /\ out = Midpoint
        /\ \A i \in 1..3 : ~IsNaN(out[i])

\* C7 as stated: at t = [0,0] both raw weights are smooth, and for every
\* smooth # 0 the result is the midpoint (a + b)/2.
C7_Original ==
    (Sampled /\ t = <<Zero, Zero>>) =>
        /\ RawW0 = fn.par[1]
        /\ RawW1 = fn.par[1]
        /\ fn.par[1] # Zero => out = Midpoint

\* C7 amended: at t = [0,0] both raw weights are 1 + smooth, and for every
\* smooth # -1 (smooth = 0 included) the result is the midpoint (a + b)/2.
C7_CornerWeights ==
    (Sampled /\ t = <<Zero, Zero>>) =>
        /\ RawW0 = fadd(One, fn.par[1])
        /\ RawW1 = fadd(One, fn.par[1])
        /\ fn.par[1] # Fin(-1, 1) => out = Midpoint

C7_Witness ==
    /\ Sampled
    /\ t = <<Zero, Zero>>
    /\ fn.par[1] = F05
    /\ RawW0 = Fin(3, 2)
    /\ RawA = V(0, 0, 2)
    /\ RawB = V(0, 0, 0)
    /\ out = V(0, 0, 1)

Surf1 == ext1(lin(V(0, 0, 0), V(4, 0, 0)), lin(V(0, 0, 0), V(0, 4, 2)))
Surf2 == ext1(CurveB, CurveC)
Surf3 == cquad(F05, Quad1[1], Quad1[2], Quad1[3], Quad1[4])

NewSurface ==
    /\ pc = "new"
    /\ \E s \in {Surf1, Surf2, Surf3} : Built(s)

WrapContour ==
    /\ pc = "build"
    /\ Rank(fn) = 2
    /\ Built(contour(fn))

NextContour ==
    \/ NewSurface
    \/ WrapContour
    \/ Sample1
    \/ Sample2
    \/ Invoke
    \/ Return

SpecContour == Init /\ [][NextContour]_vars

OnBoundary(p) ==
    /\ InUnit(p[1])
    /\ InUnit(p[2])
    /\ p[1] \in {Zero, One} \/ p[2] \in {Zero, One}

\* C6: contour(s) is s at [0,0], [1,0], [1,1], [0,1], [0,0] for t = 0, 0.25,
\* 0.5, 0.75, 1; s is always sampled on the boundary of the unit square; and
\* at 0.25, 0.5, 0.75 it is sampled where the preceding piece ends.
C6_ContourClosedLoop ==
    (pc \in {"call", "done"} /\ fn.op = "contour" /\ caller = fn) =>
        LET s == fn.sub[1]
        IN  /\ cur = s
            /\ OnBoundary(arg)
            /\ t = Zero => arg = <<Zero, Zero>>
            /\ t = F025 => arg = <<One, Zero>> /\ arg = <<fmul(Four, t), Zero>>
            /\ t = F05 => arg = <<One, One>> /\ arg = <<One, fmul(Four, fsub(t, F025))>>
            /\ t = F075 => arg = <<Zero, One>> /\ arg = <<fsub(One, fmul(Four, fsub(t, F05))), One>>
            /\ t = One => arg = <<Zero, Zero>>
            /\ pc = "done" => out = Call(s, arg)

C6_Witness ==
    /\ pc = "done"
    /\ fn = contour(Surf1)
    /\ t = F075
    /\ arg = <<Zero, One>>
    /\ out = V(0, 4, 2)

(***************************************************************************)
(* Baked mirrors (specification SpecMir): a caller builds a volume, may    *)
(* bake its mirror image into it, and samples the result.                  *)
(***************************************************************************)
Vol1 == ext2(lin(V(0, 0, 0), V(4, 0, 0)), ext1(lin(V(0, 0, 0), V(0, 4, 0)), lin(V(0, 0, 0), V(0, 0, 4))))
Vol2 == ext2(CurveB, Surf1)

\* x coordinates of the mirror plane.
Planes == {Fin(-1, 1), Zero, Two}

NewVolume ==
    /\ pc = "new"
    /\ \E v \in {Vol1, Vol2} : Built(v)

WrapMirx3 ==
    /\ pc = "build"
    /\ fn.op = "ext2"
    /\ \E c \in Planes : Built(mirx3(c, fn))

NextMir ==
    \/ NewVolume
    \/ WrapMirx3
    \/ Sample3
    \/ Invoke
    \/ Return

SpecMir == Init /\ [][NextMir]_vars

Reflect(c, p) == <<fsub(fmul(Two, c), p[1]), p[2], p[3]>>

\* C8: mirx3(c,a)(t) is a([2*t0, t1, t2]) for t0 < 0.5 and the reflection
\* across x = c of a([2*(t0-0.5), t1, t2]) for t0 >= 0.5; so the point at
\* [t0+0.5, t1, t2] mirrors the point at [t0, t1, t2] for t0 in [0, 0.5).
C8_BakedMirror ==
    (pc = "done" /\ fn.op = "conx3" /\ fn.sub[2].op = "mx" /\ fn = mirx3(fn.sub[2].par[1], fn.sub[1])) =>
        LET c == fn.sub[2].par[1]
            a == fn.sub[1]
            lower == <<fsub(t[1], F05), t[2], t[3]>>
        IN  /\ flt(t[1], F05) => out = Call(a, <<fmul(Two, t[1]), t[2], t[3]>>)
            /\ ~flt(t[1], F05) => out = Reflect(c, Call(a, <<fmul(Two, fsub(t[1], F05)), t[2], t[3]>>))
            /\ (~flt(t[1], F05) /\ flt(t[1], One)) => out = Reflect(c, Call(fn, lower))

C8_Witness ==
    /\ pc = "done"
    /\ fn = mirx3(Zero, Vol1)
    /\ t = <<F075, F025, One>>
    /\ out = V(-2, 1, 4)

(***************************************************************************)
(* Bezier curves (specification SpecBez): a caller builds a cbez from four *)
(* control points and samples it.                                          *)
(***************************************************************************)
ControlPoints == {V(0, 0, 0), V(4, 0, 2), V(0, 8, 0)}

NewCbez ==
    /\ pc = "new"
    /\ \E a \in ControlPoints, b \in ControlPoints, c \in ControlPoints, d \in ControlPoints :
          Built(cbez(a, b, c, d))

NextBez ==
    \/ NewCbez
    \/ Sample1
    \/ Return

SpecBez == Init /\ [][NextBez]_vars

\* The four-point cubic Bezier, in Bernstein form.
Bernstein(a, b, c, d, x) ==
    LET u == fsub(One, x)
        three == Fin(3, 1)
    IN  add3(add3(scale3(a, fmul(u, fmul(u, u))), scale3(b, fmul(three, fmul(fmul(u, u), x)))),
             add3(scale3(c, fmul(three, fmul(u, fmul(x, x)))), scale3(d, fmul(x, fmul(x, x)))))

\* The blend of the two chords ab and cd.
ChordBlend(a, b, c, d, x) ==
    add3(scale3(add3(a, scale3(sub3(b, a), x)), fsub(One, x)),
         scale3(add3(c, scale3(sub3(d, c), x)), x))

RECURSIVE Valid(_)
Valid(f) ==
    CASE f.op = "con" ->
           flt(Zero, f.par[1]) /\ flt(f.par[1], One) /\ Valid(f.sub[1]) /\ Valid(f.sub[2])
      [] f.op = "seg1" -> InUnit(f.par[1][1]) /\ InUnit(f.par[1][2]) /\ Valid(f.sub[1])
      [] f.op = "margin1" -> fle(Zero, f.par[1]) /\ Valid(f.sub[1])
      [] OTHER -> TRUE

\* The call in flight was made by the body of the sampled map itself.
ByOutermost == pc = "call" /\ caller = fn

\* C1: con(w,a,b)(t) with 0 < w < 1 is a(t/w) for t < w and b((t-w)/(1-w))
\* for t >= w; at the seam t = w it is b(0), not a(1).
C1_ConPiecewise ==
    (pc = "done" /\ fn.op = "con" /\ flt(Zero, fn.par[1]) /\ flt(fn.par[1], One)) =>
        LET w == fn.par[1]
            a == fn.sub[1]
            b == fn.sub[2]
        IN  /\ flt(t, w) => out = Call(a, fdiv(t, w))
            /\ ~flt(t, w) => out = Call(b, fdiv(fsub(t, w), fsub(One, w)))
            /\ t = w => out = Call(b, Zero)
            /\ (t = w /\ Call(a, One) # Call(b, Zero)) => out # Call(a, One)

C1_Witness ==
    /\ pc = "done"
    /\ fn = con(F025, CurveA, CurveC)
    /\ t = F025
    /\ out = V(0, 1, 1)

\* C3: under con (0 < w < 1), seg1 (range in [0,1]), rev and margin1
\* (m >= 0), nested in any way, every argument passed down to a wrapped
\* curve is in [0,1]; margin1 passes one in [m/(1+2m), (1+m)/(1+2m)].
C3_RemapStaysNormalized ==
    (pc = "call" /\ Valid(fn)) =>
        /\ InUnit(arg)
        /\ caller.op = "margin1" =>
              LET m == caller.par[1]
                  d == fadd(One, fmul(Two, m))
              IN  fle(fdiv(m, d), arg) /\ fle(arg, fdiv(fadd(One, m), d))

C3_Witness ==
    /\ pc = "call"
    /\ Valid(fn)
    /\ fn.op = "con"
    /\ Depth(fn) = MaxDepth
    /\ caller.op = "margin1"
    /\ caller.par[1] = F05
    /\ arg = F075
    /\ ~IsTail(cur)

\* C4 as stated: with w = 0 or w = 1, con(w,a,b)(t) divides by zero and
\* passes the (non-finite) quotient to a or b.
C4_Original ==
    (ByOutermost /\ fn.op = "con" /\ fn.par[1] \in {Zero, One}) => ~IsFin(arg)

\* C4 amended: the only division by zero is 0/0 at w = 1, t = 1, whose NaN is
\* passed to b; with w = 0 every t goes to b unchanged (divisor 1 - 0), and
\* with w = 1 every t < 1 goes to a unchanged (divisor 1).
C4_DivByZeroOnlyAtOneOne ==
    (ByOutermost /\ fn.op = "con" /\ fn.par[1] \in {Zero, One}) =>
        IF fn.par[1] = One /\ t = One THEN IsNaN(arg) /\ cur = fn.sub[2]
        ELSE arg = t /\ cur = (IF fn.par[1] = Zero THEN fn.sub[2] ELSE fn.sub[1])

C4_Witness ==
    /\ ByOutermost
    /\ fn = con(One, CurveA, CurveC)
    /\ t = One
    /\ IsNaN(arg)
    /\ cur = CurveC

=============================================================================
